---- MODULE Spec2Model ----
(***************************************************************************)
(* LlamaQueryParser (src/llama_parser/llama-model-example.py): a parser    *)
(* object that builds a prompt, runs a causal language model with retries, *)
(* decodes the output and extracts a JSON payload between two markers.     *)
(*                                                                         *)
(* Text is a sequence of one-character strings.  Indices into text are     *)
(* 0-based, as in the Python source; character i of s is s[i + 1].         *)
(***************************************************************************)
EXTENDS Integers, Sequences, FiniteSets, TLC

VARIABLES
    retries,      \* self.retries, set at construction
    tokenizer,    \* self._tokenizer: TRUE once from_pretrained has returned
    model,        \* self._model: None, or the handle the loader returned
    pc,           \* position of the current parse call
    query,        \* argument of the current parse call
    prompt,       \* local of parse
    inputs,       \* local of parse / _generate_output
    attempt,      \* loop variable of _generate_output
    outputs,      \* value returned by _generate_output
    decoded,      \* local of parse, generated_text of _extract_json
    start,        \* local of _extract_json
    end,          \* local of _extract_json
    json_str,     \* local of _extract_json
    result,       \* value returned by parse
    raised,       \* exception leaving parse, None when it returned
    caught,       \* exception caught by the except clause of parse
    events,       \* history: what the current parse call did, in order
    loads,        \* history: successful from_pretrained calls for the model
    calls         \* history: parse calls started

vars == <<retries, tokenizer, model, pc, query, prompt, inputs, attempt, outputs,
          decoded, start, end, json_str, result, raised, caught, events, loads, calls>>

-----------------------------------------------------------------------------
(* Bounds of the model *)

MaxRetries == 2

MaxCalls == 2

MaxChunks == 4

-----------------------------------------------------------------------------
(* String constants of the source *)

start_marker ==
    <<"<","<","<","J","S","O","N","_","S","T","A","R","T",">",">",">">>

end_marker ==
    <<"<","<","<","J","S","O","N","_","E","N","D",">",">",">">>

NoJsonMsg ==
    <<"N","o"," ","J","S","O","N"," ","o","u","t","p","u","t"," ","f","o","u","n","d",".">>

FailedParseMsg ==
    <<"F","a","i","l","e","d"," ","t","o"," ","p","a","r","s","e"," ","J","S","O","N"," ","o",
      "u","t","p","u","t"," ","f","r","o","m"," ","m","o","d","e","l",".">>

GenFailedPrefix ==
    <<"M","o","d","e","l"," ","g","e","n","e","r","a","t","i","o","n"," ","f","a","i","l","e",
      "d",":"," ">>

NoneSubscriptDetail ==
    <<"'","N","o","n","e","T","y","p","e","'"," ","o","b","j","e","c","t"," ","i","s"," ","n",
      "o","t"," ","s","u","b","s","c","r","i","p","t","a","b","l","e">>

KeyError ==
    <<"e","r","r","o","r">>

KeyRaw ==
    <<"r","a","w">>

TemplateHead ==
    <<" "," "," "," "," "," "," "," "," "," "," "," ","Y","o","u"," ","a","r","e"," ","a"," ",
      "r","e","a","l"," ","e","s","t","a","t","e"," ","a","s","s","i","s","t","a","n","t",".",
      " ","Y","o","u","r"," ","j","o","b"," ","i","s"," ","t","o"," ","c","o","n","v","e","r",
      "t"," ","t","h","e"," ","u","s","e","r","'","s"," ","r","e","q","u","e","s","t"," ","i",
      "n","t","o"," ","a"," ","v","a","l","i","d"," ","J","S","O","N"," ","o","b","j","e","c",
      "t"," ","u","s","i","n","g"," ","t","h","e"," ","e","x","a","c","t"," ","f","o","r","m",
      "a","t"," ","b","e","l","o","w",".","\n"," "," "," "," "," "," "," "," "," "," "," "," ",
      "O","u","t","p","u","t"," ","O","N","L","Y"," ","t","h","e"," ","J","S","O","N"," ","o",
      "b","j","e","c","t"," ","a","n","d"," ","n","o"," ","o","t","h","e","r"," ","t","e","x",
      "t",".","\n"," "," "," "," "," "," "," "," "," "," "," "," ","Y","o","u","r"," ","e","n",
      "t","i","r","e"," ","o","u","t","p","u","t"," ","m","u","s","t"," ","c","o","n","s","i",
      "s","t"," ","o","f"," ","t","h","e"," ","f","o","l","l","o","w","i","n","g",":","\n"," ",
      " "," "," "," "," "," "," "," "," "," "," ","<","<","<","J","S","O","N","_","S","T","A",
      "R","T",">",">",">","\n"," "," "," "," "," "," "," "," "," "," "," "," ","{"," ","\n"," ",
      " "," "," "," "," "," "," "," "," "," "," "," "," ","\"","l","a","y","e","r","\"",":"," ",
      "\"","<","s","t","r","i","n","g",">","\"",",","\n"," "," "," "," "," "," "," "," "," ",
      " "," "," "," "," ","\"","f","i","l","t","e","r","s","\"",":"," ","{","\n"," "," "," ",
      " "," "," "," "," "," "," "," "," "," "," "," "," ","\"","f","i","r","e","_","r","i","s",
      "k","\"",":"," ","\"","<","s","t","r","i","n","g",">","\"",",","\n"," "," "," "," "," ",
      " "," "," "," "," "," "," "," "," "," "," ","\"","p","r","i","c","e","\"",":"," ","{"," ",
      "\"","l","t","\"",":"," ","<","n","u","m","b","e","r",">"," ","}","\n"," "," "," "," ",
      " "," "," "," "," "," "," "," "," "," ","}","\n"," "," "," "," "," "," "," "," "," "," ",
      " "," ","}","\n"," "," "," "," "," "," "," "," "," "," "," "," ","<","<","<","J","S","O",
      "N","_","E","N","D",">",">",">","\n"," "," "," "," "," "," "," "," "," "," "," "," ","D",
      "o"," ","n","o","t"," ","i","n","c","l","u","d","e"," ","a","n","y"," ","e","x","t","r",
      "a"," ","t","e","x","t",","," ","e","x","p","l","a","n","a","t","i","o","n","s",","," ",
      "o","r"," ","c","h","a","r","a","c","t","e","r","s",".","\n"," "," "," "," "," "," "," ",
      " "," "," "," "," ","U","s","e","r",":"," ">>

TemplateTail ==
    <<"\n"," "," "," "," "," "," "," "," ">>

-----------------------------------------------------------------------------
(* Python values *)

None == <<>>

\* Every Python value of the model is a record of one shape, so that any two
\* values can be compared: t is the type tag, n an integer payload, s a text
\* payload and kids the contained values.
Mk(t, n, s, kids) == [t |-> t, n |-> n, s |-> s, kids |-> kids]

PyNone == Mk("null", 0, <<>>, <<>>)

PyBool(b) == Mk(IF b THEN "true" ELSE "false", 0, <<>>, <<>>)

PyInt(n) == Mk("int", n, <<>>, <<>>)

\* A float is kept as the text of its literal.
PyFloat(lexeme) == Mk("float", 0, lexeme, <<>>)

PyStr(s) == Mk("str", 0, s, <<>>)

PyList(items) == Mk("list", 0, <<>>, items)

\* A dict is the sequence of its items in insertion order.
DictItem(key, value) == Mk("item", 0, key, <<value>>)

PyDict(items) == Mk("dict", 0, <<>>, items)

\* d[key] = value on the item sequence of a dict: a key already present keeps
\* its position and takes the new value.
DictSet(items, key, value) ==
    IF \E k \in 1..Len(items) : items[k].s = key
    THEN [k \in 1..Len(items) |->
             IF items[k].s = key THEN DictItem(key, value) ELSE items[k]]
    ELSE Append(items, DictItem(key, value))

-----------------------------------------------------------------------------
(* str methods used by the source *)

\* s[i] for 0 <= i < len(s)
At(s, i) == s[i + 1]

\* s.startswith(sub, i) for i >= 0
MatchAt(s, sub, i) ==
    /\ i + Len(sub) <= Len(s)
    /\ \A k \in 1..Len(sub) : s[i + k] = sub[k]

\* A slice bound as Python normalises it: negative counts from the end, then
\* clipped to 0..len(s).
ClipIndex(s, i) ==
    LET j == IF i < 0 THEN i + Len(s) ELSE i
    IN  IF j < 0 THEN 0 ELSE IF j > Len(s) THEN Len(s) ELSE j

\* s[a:b]
PySlice(s, a, b) ==
    LET lo == ClipIndex(s, a)
        hi == ClipIndex(s, b)
    IN  IF lo >= hi THEN <<>> ELSE SubSeq(s, lo + 1, hi)

\* s.find(sub, from): the lowest index >= from at which sub occurs, else -1.
\* A negative from counts from the end of s.
Find(s, sub, from) ==
    LET lo  == IF from < 0 THEN (IF from + Len(s) < 0 THEN 0 ELSE from + Len(s)) ELSE from
        occ == {i \in lo..(Len(s) - Len(sub)) : MatchAt(s, sub, i)}
    IN  IF occ = {} THEN -1 ELSE CHOOSE i \in occ : \A j \in occ : i <= j

\* The characters str.strip() removes (those of them the model's texts use).
PyWhitespace == {" ", "\t", "\n", "\r", "\f"}

\* s.strip()
Strip(s) ==
    LET keep == {i \in 1..Len(s) : s[i] \notin PyWhitespace}
    IN  IF keep = {} THEN <<>>
        ELSE SubSeq(s, CHOOSE i \in keep : \A j \in keep : i <= j,
                       CHOOSE i \in keep : \A j \in keep : i >= j)

-----------------------------------------------------------------------------
(* json.loads: the decoder of the standard library, on text *)

JsonWhitespace == {" ", "\t", "\n", "\r"}

Digits == {"0", "1", "2", "3", "4", "5", "6", "7", "8", "9"}

HexDigits == Digits \cup {"a", "b", "c", "d", "e", "f", "A", "B", "C", "D", "E", "F"}

\* Characters a JSON string may not hold unescaped (strict mode).
ControlChars == {"\t", "\n", "\r", "\f"}

DigitValue(c) ==
    CASE c = "0" -> 0 [] c = "1" -> 1 [] c = "2" -> 2 [] c = "3" -> 3 [] c = "4" -> 4
      [] c = "5" -> 5 [] c = "6" -> 6 [] c = "7" -> 7 [] c = "8" -> 8 [] c = "9" -> 9

\* A scan either fails or yields a value and the index after it.
ScanFail == [ok |-> FALSE, val |-> PyNone, pos |-> 0]

ScanOk(v, p) == [ok |-> TRUE, val |-> v, pos |-> p]

\* The index of the first character at or after i that is not JSON whitespace.
RECURSIVE SkipWs(_, _)
SkipWs(s, i) ==
    IF i < Len(s) /\ At(s, i) \in JsonWhitespace THEN SkipWs(s, i + 1) ELSE i

\* The index after the run of digits starting at i.
RECURSIVE SkipDigits(_, _)
SkipDigits(s, i) ==
    IF i < Len(s) /\ At(s, i) \in Digits THEN SkipDigits(s, i + 1) ELSE i

RECURSIVE DigitsValue(_)
DigitsValue(ds) ==
    IF ds = <<>> THEN 0
    ELSE 10 * DigitsValue(SubSeq(ds, 1, Len(ds) - 1)) + DigitValue(ds[Len(ds)])

\* The backslash escapes of a JSON string.
EscapeChar(c) ==
    CASE c = "\"" -> "\"" [] c = "\\" -> "\\" [] c = "/" -> "/" [] c = "b" -> "\\b"
      [] c = "f" -> "\f" [] c = "n" -> "\n" [] c = "r" -> "\r" [] c = "t" -> "\t"

\* scanstring: i is the index after the opening quote; acc the characters so far.
RECURSIVE ScanString(_, _, _)
ScanString(s, i, acc) ==
    IF i >= Len(s) THEN ScanFail
    ELSE LET c == At(s, i) IN
         IF c = "\"" THEN ScanOk(PyStr(acc), i + 1)
         ELSE IF c \in ControlChars THEN ScanFail
         ELSE IF c # "\\" THEN ScanString(s, i + 1, Append(acc, c))
         ELSE IF i + 1 >= Len(s) THEN ScanFail
         ELSE LET e == At(s, i + 1) IN
              IF e \in {"\"", "\\", "/", "b", "f", "n", "r", "t"}
              THEN ScanString(s, i + 2, Append(acc, EscapeChar(e)))
              ELSE IF /\ e = "u"
                      /\ i + 5 < Len(s)
                      /\ \A k \in 2..5 : At(s, i + k) \in HexDigits
              THEN ScanString(s, i + 6,
                       Append(acc, "\\u" \o At(s, i + 2) \o At(s, i + 3)
                                         \o At(s, i + 4) \o At(s, i + 5)))
              ELSE ScanFail

\* NUMBER_RE: (-?(?:0|[1-9]\d*))(\.\d+)?([eE][-+]?\d+)?
ScanNumber(s, i) ==
    LET neg      == i < Len(s) /\ At(s, i) = "-"
        intStart == IF neg THEN i + 1 ELSE i
        intEnd   == IF intStart < Len(s) /\ At(s, intStart) = "0" THEN intStart + 1
                    ELSE SkipDigits(s, intStart)
        fracEnd  == IF /\ intEnd + 1 < Len(s)
                       /\ At(s, intEnd) = "."
                       /\ At(s, intEnd + 1) \in Digits
                    THEN SkipDigits(s, intEnd + 1) ELSE intEnd
        expSign  == IF fracEnd + 1 < Len(s) /\ At(s, fracEnd + 1) \in {"-", "+"}
                    THEN fracEnd + 2 ELSE fracEnd + 1
        expEnd   == IF /\ fracEnd < Len(s)
                       /\ At(s, fracEnd) \in {"e", "E"}
                       /\ expSign < Len(s)
                       /\ At(s, expSign) \in Digits
                    THEN SkipDigits(s, expSign) ELSE fracEnd
        magnitude == DigitsValue(SubSeq(s, intStart + 1, intEnd))
    IN  IF intEnd = intStart THEN ScanFail
        ELSE IF expEnd = intEnd
        THEN ScanOk(PyInt(IF neg THEN 0 - magnitude ELSE magnitude), intEnd)
        ELSE ScanOk(PyFloat(SubSeq(s, i + 1, expEnd)), expEnd)

LitNull ==
    <<"n","u","l","l">>

LitTrue ==
    <<"t","r","u","e">>

LitFalse ==
    <<"f","a","l","s","e">>

LitNaN ==
    <<"N","a","N">>

LitInfinity ==
    <<"I","n","f","i","n","i","t","y">>

LitNegInfinity ==
    <<"-","I","n","f","i","n","i","t","y">>

\* scan_once, JSONObject and JSONArray of json.scanner / json.decoder.
RECURSIVE ScanOnce(_, _)
RECURSIVE ScanMembers(_, _, _)
RECURSIVE ScanItems(_, _, _)

\* The members of an object from the opening quote of a key at index i on.
ScanMembers(s, i, items) ==
    IF ~(i < Len(s) /\ At(s, i) = "\"") THEN ScanFail
    ELSE LET key == ScanString(s, i + 1, <<>>) IN
         IF ~key.ok THEN ScanFail
         ELSE LET colon == SkipWs(s, key.pos) IN
              IF ~(colon < Len(s) /\ At(s, colon) = ":") THEN ScanFail
              ELSE LET value == ScanOnce(s, SkipWs(s, colon + 1)) IN
                   IF ~value.ok THEN ScanFail
                   ELSE LET sep  == SkipWs(s, value.pos)
                            more == DictSet(items, key.val.s, value.val)
                        IN  IF sep >= Len(s) THEN ScanFail
                            ELSE IF At(s, sep) = "}" THEN ScanOk(PyDict(more), sep + 1)
                            ELSE IF At(s, sep) = ","
                            THEN ScanMembers(s, SkipWs(s, sep + 1), more)
                            ELSE ScanFail

\* The elements of an array from the value at index i on.
ScanItems(s, i, items) ==
    LET value == ScanOnce(s, i) IN
    IF ~value.ok THEN ScanFail
    ELSE LET sep  == SkipWs(s, value.pos)
             more == Append(items, value.val)
         IN  IF sep >= Len(s) THEN ScanFail
             ELSE IF At(s, sep) = "]" THEN ScanOk(PyList(more), sep + 1)
             ELSE IF At(s, sep) = "," THEN ScanItems(s, SkipWs(s, sep + 1), more)
             ELSE ScanFail

ScanOnce(s, i) ==
    IF i >= Len(s) THEN ScanFail
    ELSE LET c == At(s, i) IN
         IF c = "\"" THEN ScanString(s, i + 1, <<>>)
         ELSE IF c = "{"
         THEN LET j == SkipWs(s, i + 1) IN
              IF j < Len(s) /\ At(s, j) = "}" THEN ScanOk(PyDict(<<>>), j + 1)
              ELSE ScanMembers(s, j, <<>>)
         ELSE IF c = "["
         THEN LET j == SkipWs(s, i + 1) IN
              IF j < Len(s) /\ At(s, j) = "]" THEN ScanOk(PyList(<<>>), j + 1)
              ELSE ScanItems(s, j, <<>>)
         ELSE IF MatchAt(s, LitNull, i) THEN ScanOk(PyNone, i + Len(LitNull))
         ELSE IF MatchAt(s, LitTrue, i) THEN ScanOk(PyBool(TRUE), i + Len(LitTrue))
         ELSE IF MatchAt(s, LitFalse, i) THEN ScanOk(PyBool(FALSE), i + Len(LitFalse))
         ELSE IF ScanNumber(s, i).ok THEN ScanNumber(s, i)
         ELSE IF MatchAt(s, LitNaN, i) THEN ScanOk(PyFloat(LitNaN), i + Len(LitNaN))
         ELSE IF MatchAt(s, LitInfinity, i)
         THEN ScanOk(PyFloat(LitInfinity), i + Len(LitInfinity))
         ELSE IF MatchAt(s, LitNegInfinity, i)
         THEN ScanOk(PyFloat(LitNegInfinity), i + Len(LitNegInfinity))
         ELSE ScanFail

\* json.loads(s): ok is FALSE where it raises JSONDecodeError, else val is the
\* value it returns.  The whole of s must be one value between whitespace.
JsonLoads(s) ==
    LET obj == ScanOnce(s, SkipWs(s, 0)) IN
    IF obj.ok /\ SkipWs(s, obj.pos) = Len(s) THEN obj ELSE ScanFail

-----------------------------------------------------------------------------
(* LlamaQueryParser._extract_json *)

\* The error dictionaries _extract_json returns.
ErrorDict(msg, raw) ==
    PyDict(<<DictItem(KeyError, PyStr(msg)), DictItem(KeyRaw, PyStr(raw))>>)

\* start = generated_text.find(start_marker)
ExtractStart(generated_text) == Find(generated_text, start_marker, 0)

\* The end marker searched from the beginning of the text.
ExtractEnd_FromZero(generated_text) == Find(generated_text, end_marker, 0)

\* end = generated_text.find(end_marker, start)
ExtractEnd(generated_text) ==
    Find(generated_text, end_marker, ExtractStart(generated_text))

\* The test without its second half.
MarkersFound_StartOnly(generated_text) == ExtractStart(generated_text) # -1

\* start != -1 and end != -1
MarkersFound(generated_text) ==
    ExtractStart(generated_text) # -1 /\ ExtractEnd(generated_text) # -1

\* The slice taken from start, the start marker included.
ExtractJsonStr_FromStart(generated_text) ==
    Strip(PySlice(generated_text, ExtractStart(generated_text),
                  ExtractEnd(generated_text)))

\* json_str = generated_text[start + len(start_marker):end].strip()
ExtractJsonStr(generated_text) ==
    Strip(PySlice(generated_text,
                  ExtractStart(generated_text) + Len(start_marker),
                  ExtractEnd(generated_text)))

\* _extract_json with raw set to the slice instead of the whole text.
ExtractJson_RawSlice(generated_text) ==
    IF MarkersFound(generated_text)
    THEN LET loaded == JsonLoads(ExtractJsonStr(generated_text)) IN
         IF loaded.ok THEN loaded.val
         ELSE ErrorDict(FailedParseMsg, ExtractJsonStr(generated_text))
    ELSE ErrorDict(NoJsonMsg, generated_text)

\* The value _extract_json returns.
ExtractJson(generated_text) ==
    IF MarkersFound(generated_text)
    THEN LET loaded == JsonLoads(ExtractJsonStr(generated_text)) IN
         IF loaded.ok THEN loaded.val
         ELSE ErrorDict(FailedParseMsg, generated_text)
    ELSE ErrorDict(NoJsonMsg, generated_text)

-----------------------------------------------------------------------------
(* Generated texts *)

\* The pieces generated texts are made of.
Chunks ==
    { start_marker, end_marker, <<"{">>, <<"}">>, <<"1">>, <<" ">>,
      <<"\"", "a", "\"", ":">> }

\* The texts of at most n chunks.
RECURSIVE ChunkTexts(_)
ChunkTexts(n) ==
    IF n = 0 THEN {<<>>}
    ELSE LET shorter == ChunkTexts(n - 1)
         IN  shorter \cup {t \o c : t \in shorter, c \in Chunks}

Texts == ChunkTexts(MaxChunks)

-----------------------------------------------------------------------------
(* textwrap.dedent *)

\* text.split("\n")
RECURSIVE SplitLines(_)
SplitLines(text) ==
    LET breaks == {i \in 1..Len(text) : text[i] = "\n"} IN
    IF breaks = {} THEN <<text>>
    ELSE LET b == CHOOSE i \in breaks : \A j \in breaks : i <= j
         IN  <<SubSeq(text, 1, b - 1)>> \o SplitLines(SubSeq(text, b + 1, Len(text)))

\* "\n".join(lines)
RECURSIVE JoinLines(_)
JoinLines(lines) ==
    IF Len(lines) = 1 THEN lines[1]
    ELSE lines[1] \o <<"\n">> \o JoinLines(Tail(lines))

\* A line of blanks and tabs only (the empty line included).
IsBlankLine(line) == \A i \in 1..Len(line) : line[i] \in {" ", "\t"}

\* The blanks and tabs a line starts with.
LeadingWhitespace(line) ==
    LET solid == {i \in 1..Len(line) : line[i] \notin {" ", "\t"}} IN
    IF solid = {} THEN line
    ELSE SubSeq(line, 1, (CHOOSE i \in solid : \A j \in solid : i <= j) - 1)

\* a.startswith(b)
StartsWith(a, b) == MatchAt(a, b, 0)

\* The margin after one more indent: the longest common prefix of the two.
NarrowMargin(margin, indent) ==
    IF StartsWith(indent, margin) THEN margin
    ELSE IF StartsWith(margin, indent) THEN indent
    ELSE LET differ == {i \in 1..Len(margin) : i <= Len(indent) /\ margin[i] # indent[i]}
         IN  SubSeq(margin, 1, (CHOOSE i \in differ : \A j \in differ : i <= j) - 1)

\* The common margin of the indents from index k on; margin is None before the
\* first indent.
RECURSIVE CommonMargin(_, _, _)
CommonMargin(indents, k, margin) ==
    IF k > Len(indents) THEN margin
    ELSE CommonMargin(indents, k + 1,
                      IF margin = None THEN <<indents[k]>>
                      ELSE <<NarrowMargin(margin[1], indents[k])>>)

\* textwrap.dedent(text): lines of blanks only become empty, and the leading
\* whitespace common to all other lines is removed from each.
Dedent(text) ==
    LET lines   == SplitLines(text)
        cleaned == [k \in 1..Len(lines) |-> IF IsBlankLine(lines[k]) THEN <<>> ELSE lines[k]]
        indents == SelectSeq([k \in 1..Len(cleaned) |->
                                 IF cleaned[k] = <<>> THEN None
                                 ELSE <<LeadingWhitespace(cleaned[k])>>],
                             LAMBDA x : x # None)
        found   == CommonMargin([k \in 1..Len(indents) |-> indents[k][1]], 1, None)
        margin  == IF found = None THEN <<>> ELSE found[1]
    IN  JoinLines([k \in 1..Len(cleaned) |->
                      IF margin # <<>> /\ StartsWith(cleaned[k], margin)
                      THEN SubSeq(cleaned[k], Len(margin) + 1, Len(cleaned[k]))
                      ELSE cleaned[k]])

-----------------------------------------------------------------------------
(* LlamaQueryParser._build_prompt *)

\* The template with the user line put first.
BuildPrompt_QueryFirst(q) == Dedent(q \o <<"\n">> \o TemplateHead \o TemplateTail)

BuildPrompt(q) == Dedent(TemplateHead \o q \o TemplateTail)

-----------------------------------------------------------------------------
(* The collaborators: tokenizer and model of the transformers library *)

\* str(e) of the exceptions the library calls raise.
Errors == { <<"o", "o", "m">>, <<"b", "u", "s", "y">> }

\* The queries parse is called with.
Queries ==
    { <<>>,
      <<"h", "i">>,
      <<"a", "\n", " ", " ", "b">>,
      start_marker \o <<"1">> \o end_marker }

\* What the model adds to the prompt.
Completions ==
    { <<>>,
      <<"\n">> \o start_marker \o <<"{", "\"", "a", "\"", ":", "1", "}">> \o end_marker,
      <<"{", "}">> \o end_marker }

\* The texts tokenizer.decode may return for a prompt: the prompt followed by
\* a completion (generate returns the input sequence followed by the new
\* tokens), or a text that does not repeat the prompt.
DecodedTexts(p) == {p \o c : c \in Completions} \cup ChunkTexts(1)
                   \cup {start_marker \o <<"1">> \o end_marker}

\* The handle the k-th successful load returns.
Handle(k) == <<"model", k>>

\* The record of one step of a parse call.
Event(op, detail) == [op |-> op, detail |-> detail]

-----------------------------------------------------------------------------
(* LlamaQueryParser.parse *)

\* {"error": f"Model generation failed: {str(e)}"}
GenFailed(e) == PyDict(<<DictItem(KeyError, PyStr(GenFailedPrefix \o e))>>)

\* except Exception as e: return {"error": ...}
Caught(op, e) ==
    /\ caught' = <<e>>
    /\ result' = <<GenFailed(e)>>
    /\ pc' = "returned"
    /\ events' = Append(events, Event(op, e))

\* parse(query) is called; prompt = self._build_prompt(query)
ParseCall ==
    /\ pc \in {"idle", "returned", "raised"}
    /\ calls < MaxCalls
    /\ \E q \in Queries :
          /\ query' = q
          /\ prompt' = <<BuildPrompt(q)>>
    /\ calls' = calls + 1
    /\ pc' = "encode"
    /\ inputs' = None
    /\ attempt' = None
    /\ outputs' = None
    /\ decoded' = None
    /\ start' = None
    /\ end' = None
    /\ json_str' = None
    /\ result' = None
    /\ raised' = None
    /\ caught' = None
    /\ events' = <<>>
    /\ UNCHANGED <<retries, tokenizer, model, loads>>

\* inputs = self._tokenizer.encode(prompt, return_tensors="pt")
EncodeOk ==
    /\ pc = "encode"
    /\ inputs' = <<"pt", prompt[1]>>
    /\ pc' = "load"
    /\ events' = Append(events, Event("encode_ok", <<>>))
    /\ UNCHANGED <<retries, tokenizer, model, query, prompt, attempt, outputs, decoded,
                   start, end, json_str, result, raised, caught, loads, calls>>

\* The encode call raises: it stands outside the try of parse.
EncodeRaise ==
    /\ pc = "encode"
    /\ \E e \in Errors :
          /\ raised' = <<e>>
          /\ events' = Append(events, Event("encode_fail", e))
    /\ pc' = "raised"
    /\ UNCHANGED <<retries, tokenizer, model, query, prompt, inputs, attempt, outputs,
                   decoded, start, end, json_str, result, caught, loads, calls>>

\* _load_model without the "is None" test: every call loads again.
LoadModelOk_Reload ==
    /\ pc = "load"
    /\ model' = Handle(loads + 1)
    /\ loads' = loads + 1
    /\ pc' = "to_device"
    /\ events' = Append(events, Event("load_ok", <<>>))
    /\ UNCHANGED <<retries, tokenizer, query, prompt, inputs, attempt, outputs, decoded,
                   start, end, json_str, result, raised, caught, calls>>

\* model = self._load_model(), self._model is None: from_pretrained returns.
LoadModelOk ==
    /\ pc = "load"
    /\ model = None
    /\ model' = Handle(loads + 1)
    /\ loads' = loads + 1
    /\ pc' = "to_device"
    /\ events' = Append(events, Event("load_ok", <<>>))
    /\ UNCHANGED <<retries, tokenizer, query, prompt, inputs, attempt, outputs, decoded,
                   start, end, json_str, result, raised, caught, calls>>

\* model = self._load_model(), self._model is None: from_pretrained raises.
LoadModelRaise ==
    /\ pc = "load"
    /\ model = None
    /\ \E e \in Errors : Caught("load_fail", e)
    /\ UNCHANGED <<retries, tokenizer, model, query, prompt, inputs, attempt, outputs,
                   decoded, start, end, json_str, raised, loads, calls>>

\* model = self._load_model(), self._model is not None.
LoadModelCached ==
    /\ pc = "load"
    /\ model # None
    /\ pc' = "to_device"
    /\ events' = Append(events, Event("load_cached", <<>>))
    /\ UNCHANGED <<retries, tokenizer, model, query, prompt, inputs, attempt, outputs,
                   decoded, start, end, json_str, result, raised, caught, loads, calls>>

\* inputs = inputs.to(next(model.parameters()).device); for attempt in
\* range(self.retries): with no attempt to make, _generate_output returns None.
ToDeviceOk ==
    /\ pc = "to_device"
    /\ events' = Append(events, Event("to_device_ok", <<>>))
    /\ IF retries > 0
       THEN attempt' = <<0>> /\ pc' = "generate"
       ELSE attempt' = None /\ pc' = "decode"
    /\ UNCHANGED <<retries, tokenizer, model, query, prompt, inputs, outputs, decoded,
                   start, end, json_str, result, raised, caught, loads, calls>>

ToDeviceRaise ==
    /\ pc = "to_device"
    /\ \E e \in Errors : Caught("to_device_fail", e)
    /\ UNCHANGED <<retries, tokenizer, model, query, prompt, inputs, attempt, outputs,
                   decoded, start, end, json_str, raised, loads, calls>>

\* The retry loop with the last attempt told by "attempt == self.retries".
AttemptFailed_OffByOne(op, e) ==
    IF attempt[1] = retries
    THEN Caught(op, e)
    ELSE /\ pc' = "sleep"
         /\ events' = Append(events, Event(op, e))
         /\ UNCHANGED <<result, caught>>

\* except Exception as e of _generate_output: the last attempt re-raises into
\* the except clause of parse, any other goes on to time.sleep(1).
AttemptFailed(op, e) ==
    IF attempt[1] = retries - 1
    THEN Caught(op, e)
    ELSE /\ pc' = "sleep"
         /\ events' = Append(events, Event(op, e))
         /\ UNCHANGED <<result, caught>>

\* outputs = model.generate(...); return outputs
GenerateOk ==
    /\ pc = "generate"
    /\ outputs' = <<[attempt |-> attempt[1], model |-> model, inputs |-> inputs]>>
    /\ pc' = "decode"
    /\ events' = Append(events, Event("generate_ok", <<>>))
    /\ UNCHANGED <<retries, tokenizer, model, query, prompt, inputs, attempt, decoded,
                   start, end, json_str, result, raised, caught, loads, calls>>

\* model.generate(...) raises.
GenerateRaise ==
    /\ pc = "generate"
    /\ \E e \in Errors : AttemptFailed("generate_fail", e)
    /\ UNCHANGED <<retries, tokenizer, model, query, prompt, inputs, attempt, outputs,
                   decoded, start, end, json_str, raised, loads, calls>>

\* self._get_stop_token_id("<<<JSON_END>>>") raises while the arguments of
\* generate are evaluated: generate is not called in this attempt.
StopTokenRaise ==
    /\ pc = "generate"
    /\ \E e \in Errors : AttemptFailed("stop_token_fail", e)
    /\ UNCHANGED <<retries, tokenizer, model, query, prompt, inputs, attempt, outputs,
                   decoded, start, end, json_str, raised, loads, calls>>

\* time.sleep(1), then the next attempt of the loop; when range(self.retries)
\* is used up the loop ends and _generate_output returns None.
Sleep ==
    /\ pc = "sleep"
    /\ IF attempt[1] + 1 < retries
       THEN attempt' = <<attempt[1] + 1>> /\ pc' = "generate"
       ELSE attempt' = attempt /\ pc' = "decode"
    /\ events' = Append(events, Event("sleep", <<>>))
    /\ UNCHANGED <<retries, tokenizer, model, query, prompt, inputs, outputs, decoded,
                   start, end, json_str, result, raised, caught, loads, calls>>

\* decoded = self._tokenizer.decode(outputs[0], skip_special_tokens=True)
DecodeOk ==
    /\ pc = "decode"
    /\ outputs # None
    /\ \E text \in DecodedTexts(prompt[1]) : decoded' = <<text>>
    /\ pc' = "extract"
    /\ events' = Append(events, Event("decode_ok", <<>>))
    /\ UNCHANGED <<retries, tokenizer, model, query, prompt, inputs, attempt, outputs,
                   start, end, json_str, result, raised, caught, loads, calls>>

DecodeRaise ==
    /\ pc = "decode"
    /\ outputs # None
    /\ \E e \in Errors : Caught("decode_fail", e)
    /\ UNCHANGED <<retries, tokenizer, model, query, prompt, inputs, attempt, outputs,
                   decoded, start, end, json_str, raised, loads, calls>>

\* outputs[0] with outputs None raises TypeError.
SubscriptNone ==
    /\ pc = "decode"
    /\ outputs = None
    /\ Caught("subscript_fail", NoneSubscriptDetail)
    /\ UNCHANGED <<retries, tokenizer, model, query, prompt, inputs, attempt, outputs,
                   decoded, start, end, json_str, raised, loads, calls>>

\* return self._extract_json(decoded)
ExtractJsonStep ==
    /\ pc = "extract"
    /\ start' = <<ExtractStart(decoded[1])>>
    /\ end' = <<ExtractEnd(decoded[1])>>
    /\ json_str' = IF MarkersFound(decoded[1]) THEN <<ExtractJsonStr(decoded[1])>> ELSE None
    /\ result' = <<ExtractJson(decoded[1])>>
    /\ pc' = "returned"
    /\ events' = Append(events, Event("extract", <<>>))
    /\ UNCHANGED <<retries, tokenizer, model, query, prompt, inputs, attempt, outputs,
                   decoded, raised, caught, loads, calls>>

-----------------------------------------------------------------------------
(* Specifications *)

\* The parser after LlamaQueryParser(retries=...) has returned.
Init ==
    /\ retries \in 0..MaxRetries
    /\ tokenizer = TRUE
    /\ model = None
    /\ pc = "idle"
    /\ query = <<>>
    /\ prompt = None
    /\ inputs = None
    /\ attempt = None
    /\ outputs = None
    /\ decoded = None
    /\ start = None
    /\ end = None
    /\ json_str = None
    /\ result = None
    /\ raised = None
    /\ caught = None
    /\ events = <<>>
    /\ loads = 0
    /\ calls = 0

Next ==
    \/ ParseCall
    \/ EncodeOk
    \/ EncodeRaise
    \/ LoadModelOk
    \/ LoadModelRaise
    \/ LoadModelCached
    \/ ToDeviceOk
    \/ ToDeviceRaise
    \/ GenerateOk
    \/ GenerateRaise
    \/ StopTokenRaise
    \/ Sleep
    \/ DecodeOk
    \/ DecodeRaise
    \/ SubscriptNone
    \/ ExtractJsonStep

Spec == Init /\ [][Next]_vars

\* _extract_json applied to each generated text of Texts.
InitExtract ==
    /\ retries = 0
    /\ tokenizer = TRUE
    /\ model = None
    /\ pc = "extract"
    /\ query = <<>>
    /\ prompt = None
    /\ inputs = None
    /\ attempt = None
    /\ outputs = None
    /\ decoded \in {<<text>> : text \in Texts}
    /\ start = None
    /\ end = None
    /\ json_str = None
    /\ result = None
    /\ raised = None
    /\ caught = None
    /\ events = <<>>
    /\ loads = 0
    /\ calls = 0

SpecExtract == InitExtract /\ [][ExtractJsonStep]_vars

-----------------------------------------------------------------------------
(* Properties of _extract_json, checked under SpecExtract *)

\* marker occurs in text at index i
Occurs(text, marker, i) ==
    /\ i \in 0..(Len(text) - Len(marker))
    /\ \A k \in 1..Len(marker) : text[i + k] = marker[k]

Positions(text) == 0..Len(text)

\* i is the index of the first start marker of text
FirstStart(text, i) ==
    /\ Occurs(text, start_marker, i)
    /\ \A k \in 0..(i - 1) : ~Occurs(text, start_marker, k)

\* j is the index of the first end marker after the start marker at i
FirstEndAfter(text, i, j) ==
    /\ j >= i + Len(start_marker)
    /\ Occurs(text, end_marker, j)
    /\ \A k \in (i + Len(start_marker))..(j - 1) : ~Occurs(text, end_marker, k)

\* the text between the start marker at i and the end marker at j
Between(text, i, j) == SubSeq(text, i + Len(start_marker) + 1, j)

\* text holds a first start marker and an end marker after it
HasMarkerPair(text) ==
    \E i \in Positions(text) :
        /\ FirstStart(text, i)
        /\ \E j \in Positions(text) : FirstEndAfter(text, i, j)

NoiseBefore == {<<>>, end_marker, <<"1">> \o end_marker \o <<"}">>}

NoiseAfter == {<<>>, end_marker, <<"{">> \o start_marker \o <<"1">> \o end_marker}

\* C2: start is the first start marker, end the first end marker after it, the
\* payload is the (stripped) text between the two, and text before the start
\* marker or after that end marker does not change the payload.
C2_FirstMarkersSelected ==
    pc = "returned" =>
        LET text == decoded[1] IN
        /\ IF \E i \in Positions(text) : Occurs(text, start_marker, i)
           THEN FirstStart(text, start[1])
           ELSE start[1] = -1
        /\ start[1] # -1 =>
              IF \E j \in Positions(text) :
                     j >= start[1] + Len(start_marker) /\ Occurs(text, end_marker, j)
              THEN FirstEndAfter(text, start[1], end[1])
              ELSE end[1] = -1
        /\ (start[1] # -1 /\ end[1] # -1) =>
              /\ json_str = <<Strip(Between(text, start[1], end[1]))>>
              /\ \A before \in NoiseBefore, after \in NoiseAfter :
                    LET core  == SubSeq(text, start[1] + 1, end[1] + Len(end_marker))
                        other == before \o core \o after
                    IN  /\ MarkersFound(other)
                        /\ ExtractStart(other) = Len(before)
                        /\ ExtractEnd(other) = Len(before) + end[1] - start[1]
                        /\ ExtractJsonStr(other) = json_str[1]
        /\ (start[1] = -1 \/ end[1] = -1) => json_str = None

\* An end marker stands before the selected start marker and another one after
\* the selected end marker.
C2_Witness ==
    /\ pc = "returned"
    /\ start # None /\ end # None
    /\ start[1] > 0 /\ end[1] > start[1]
    /\ \E k \in 0..(start[1] - 1) : Occurs(decoded[1], end_marker, k)
    /\ \E k \in (end[1] + 1)..Len(decoded[1]) : Occurs(decoded[1], end_marker, k)
    /\ json_str = <<Between(decoded[1], start[1], end[1])>>

\* C3: a text without a start marker, or without an end marker after its first
\* start marker, gives the "No JSON output found." record with the whole text
\* as raw.
C3_NoMarkersNoJson ==
    (pc = "returned" /\ ~HasMarkerPair(decoded[1])) =>
        /\ result = <<ErrorDict(NoJsonMsg, decoded[1])>>
        /\ raised = None

\* The only end marker of the text stands before its start marker.
C3_Witness ==
    /\ pc = "returned"
    /\ \E i \in Positions(decoded[1]) :
          /\ FirstStart(decoded[1], i)
          /\ \E k \in 0..(i - 1) : Occurs(decoded[1], end_marker, k)
    /\ ~HasMarkerPair(decoded[1])
    /\ result = <<ErrorDict(NoJsonMsg, decoded[1])>>

-----------------------------------------------------------------------------
(* Properties of parse, checked under Spec *)

AttemptOps == {"generate_ok", "generate_fail", "stop_token_fail"}

FailedAttemptOps == {"generate_fail", "stop_token_fail"}

GenerateOps == {"generate_ok", "generate_fail"}

FailureOps == {"encode_fail", "load_fail", "to_device_fail", "generate_fail",
               "stop_token_fail", "decode_fail"}

\* the events of the current call, up to the k-th, whose op is in ops
EventsIn(ops, k) == {m \in 1..k : events[m].op \in ops}

Happened(op) == \E k \in 1..Len(events) : events[k].op = op

\* C5 as stated: when parse reaches the retry loop and every generate call
\* fails, generate has been called exactly retries times and parse returns the
\* "Model generation failed" record with the detail of the last failed call.
C5_AlwaysFailingGenerate ==
    ( /\ pc = "returned"
      /\ Happened("to_device_ok")
      /\ ~Happened("generate_ok")
      /\ ~Happened("stop_token_fail") )
    => /\ Cardinality(EventsIn({"generate_fail"}, Len(events))) = retries
       /\ raised = None
       /\ \E k \in EventsIn({"generate_fail"}, Len(events)) :
             /\ \A m \in EventsIn({"generate_fail"}, Len(events)) : m <= k
             /\ result = <<GenFailed(events[k].detail)>>

\* C6 as stated: no parse call ends with an exception reaching its caller.
C6_NoExceptionLeavesParse == pc # "raised" /\ raised = None

\* what holds of the handle in every state
C7_State ==
    /\ calls = 0 => (tokenizer = TRUE /\ model = None /\ loads = 0)
    /\ loads <= 1
    /\ model = None <=> loads = 0
    /\ model # None => model = Handle(loads)
    /\ (calls = 1 /\ pc \in {"to_device", "generate", "sleep", "decode", "extract"})
          => Happened("load_ok")
    /\ Happened("load_cached") => (calls > 1 /\ model # None)
    /\ (\E k \in 1..Len(events) : events[k].op \in GenerateOps) => model # None
    /\ outputs # None => outputs[1].model = model

\* no step changes a loaded handle
C7_Step == model # None => (model' = model /\ loads' = loads)

\* C7: the handle is empty after construction, the first parse call that gets
\* to _load_model loads it, a loaded handle is never reset or replaced, the
\* loader succeeds at most once, and every generate call uses that handle.
C7_LazyLoadOnce == []C7_State /\ [][C7_Step]_vars

\* A second parse call has generated with the handle the first one loaded.
C7_Witness ==
    /\ calls = 2
    /\ pc = "returned"
    /\ Happened("load_cached")
    /\ Happened("generate_ok")
    /\ loads = 1
    /\ outputs = <<[attempt |-> 0, model |-> Handle(1), inputs |-> inputs]>>

\* C8: at most retries attempts; a sleep follows each failed attempt but the
\* last allowed one and is followed by the next attempt; nothing of the loop
\* follows a successful attempt or the last allowed failed one; after k failed
\* attempts a success is attempt k + 1 after k sleeps, and its output is the
\* one decoded.
C8_BoundedOrderedAttempts ==
    LET n == Len(events)
        attempts(k) == Cardinality(EventsIn(AttemptOps, k))
        sleeps(k) == Cardinality(EventsIn({"sleep"}, k))
    IN  /\ attempts(n) <= retries
        /\ Cardinality(EventsIn(GenerateOps, n)) <= retries
        /\ \A k \in 1..n :
              /\ events[k].op = "sleep" =>
                    /\ k > 1
                    /\ events[k - 1].op \in FailedAttemptOps
                    /\ attempts(k) < retries
                    /\ IF k < n THEN events[k + 1].op \in AttemptOps ELSE pc = "generate"
              /\ (events[k].op \in FailedAttemptOps /\ attempts(k) < retries) =>
                    IF k < n THEN events[k + 1].op = "sleep" ELSE pc = "sleep"
              /\ (events[k].op \in FailedAttemptOps /\ attempts(k) = retries) =>
                    (k = n /\ pc = "returned")
              /\ events[k].op = "generate_ok" =>
                    /\ \A m \in (k + 1)..n : events[m].op \notin (AttemptOps \cup {"sleep"})
                    /\ sleeps(n) = attempts(k) - 1
                    /\ Cardinality(EventsIn(FailedAttemptOps, n)) = attempts(k) - 1
                    /\ outputs # None
                    /\ outputs[1].attempt = attempts(k) - 1
              /\ events[k].op = "decode_ok" =>
                    \E m \in 1..(k - 1) :
                        /\ events[m].op = "generate_ok"
                        /\ outputs[1].attempt = attempts(m) - 1

\* One failed attempt, one sleep, then a successful second attempt whose
\* output has been decoded.
C8_Witness ==
    /\ pc = "extract"
    /\ Cardinality(EventsIn(FailedAttemptOps, Len(events))) = 1
    /\ Cardinality(EventsIn({"sleep"}, Len(events))) = 1
    /\ Happened("generate_ok")
    /\ Happened("decode_ok")
    /\ outputs[1].attempt = 1

\* the index of the first start marker of the template, and of its end marker
TemplateStartIndex == CHOOSE i \in Positions(TemplateHead) : FirstStart(TemplateHead, i)

TemplateEndIndex ==
    CHOOSE j \in Positions(TemplateHead) : FirstEndAfter(TemplateHead, TemplateStartIndex, j)

\* the lines of text without their leading blanks and tabs
UnindentedLines(text) ==
    LET lines == SplitLines(text)
    IN  [k \in 1..Len(lines) |->
            SubSeq(lines[k], Len(LeadingWhitespace(lines[k])) + 1, Len(lines[k]))]

\* C9: every prompt holds the template's start marker, schema and end marker
\* before the query, and the schema is not valid JSON; so a decoded text that
\* begins with the prompt is extracted from the prompt's own markers and gives
\* the "Failed to parse JSON output from model." record.
C9_PromptMarkersWin ==
    /\ prompt # None =>
          LET p == prompt[1] IN
          \E i \in Positions(p) :
              /\ FirstStart(p, i)
              /\ \E j \in Positions(p) :
                    /\ FirstEndAfter(p, i, j)
                    /\ ~JsonLoads(Strip(Between(p, i, j))).ok
                    /\ UnindentedLines(SubSeq(p, 1, j + Len(end_marker)))
                         = UnindentedLines(SubSeq(TemplateHead, 1,
                                                  TemplateEndIndex + Len(end_marker)))
    /\ ( /\ pc = "returned"
         /\ decoded # None
         /\ Len(decoded[1]) >= Len(prompt[1])
         /\ SubSeq(decoded[1], 1, Len(prompt[1])) = prompt[1] )
       => /\ result = <<ErrorDict(FailedParseMsg, decoded[1])>>
          /\ start[1] < end[1]
          /\ end[1] + Len(end_marker) <= Len(prompt[1])

\* The model completed the prompt with an object between markers, and parse
\* returned the failed-to-parse record.
C9_Witness ==
    /\ pc = "returned"
    /\ decoded # None
    /\ decoded[1] = prompt[1] \o <<"\n">> \o start_marker
                      \o <<"{", "\"", "a", "\"", ":", "1", "}">> \o end_marker
    /\ result = <<ErrorDict(FailedParseMsg, decoded[1])>>

\* C10 as stated: when no step of a parse call failed, generate has been
\* called and parse returns what marker extraction gives for the decoded text,
\* not the "Model generation failed" record.
C10_FailureOnlyOnFailedStep ==
    ( /\ pc = "returned"
      /\ \A k \in 1..Len(events) : events[k].op \notin FailureOps )
    => /\ \E k \in 1..Len(events) : events[k].op \in GenerateOps
       /\ caught = None
       /\ decoded # None
       /\ Happened("extract")
       /\ result = <<ExtractJson(decoded[1])>>

====
